---------------------------- MODULE Spec2Model ----------------------------
(***************************************************************************)
(* TickCapture: the wire record (MarketMessage), the SPSC ring buffer,     *)
(* the capture stage, the processor and the node supervisor.               *)
(*                                                                         *)
(* The specifications of the module:                                       *)
(*   SpecMsg   the pure functions of the wire record (types.hpp)           *)
(*   SpecRing  RingBuffer used by one producer, one consumer and a         *)
(*             monitoring thread that calls size() (ring_buffer.hpp)       *)
(*   SpecNode  CaptureNode: capture thread, processor thread, status       *)
(*             thread and the supervisor calling start()/stop()            *)
(*   FairNode  the node under fair scheduling (shutdown liveness)          *)
(*   SpecCtl   SpecNode with a second thread calling start()/stop()        *)
(*   SpecSeq   the node fed with valid records whose sequence numbers      *)
(*             jump, repeat or fall back                                   *)
(*   SpecCap   capture under load, the processor not yet consuming         *)
(*   SpecVal   capture fed with records at the validation boundaries       *)
(*   SpecSize  rings constructed with each configured size                 *)
(*   SpecStore TickStorage called directly (tick_storage.cpp)              *)
(*   SpecFail  the node on storage whose files may fail to open            *)
(*   FairObs   the node with the status thread's steps made visible        *)
(*   SpecLife  the node with repeated start() and stop() calls             *)
(* Atomic loads and stores are single steps; the acquire/release pairs of  *)
(* the ring make the interleaving semantics used here adequate.            *)
(***************************************************************************)
EXTENDS Integers, Sequences, FiniteSets, Bags, TLC

VARIABLES
  \* ---- wire record under test (SpecMsg) ----
  msg,            \* the MarketMessage the record operations act on
  lastOp,         \* the last record operation applied to msg
  \* ---- RingBuffer<MarketMessage> ----
  ring_buffer_size,   \* the size the ring was constructed with (CaptureConfig::ring_buffer_size)
  write_idx_, read_idx_, buffer_, mask_,
  total_pushed_, total_popped_, push_failures_,
  \* ---- call frames of the ring operations ----
  push,           \* try_push frame of the producer thread
  pop,            \* try_pop frame of the consumer thread
  bulk,           \* pop_bulk frame of the consumer thread
  obs,            \* size() frame of the monitoring thread
  \* ---- SpecRing driver and history ----
  pushCalls,      \* number of try_push calls made so far
  prodStopped,    \* the producer has stopped pushing
  drained,        \* try_pop observed the ring empty after the producer stopped
  pushed,         \* items for which try_push returned true, in order
  popped,         \* items returned to the consumer, in order
  \* ---- PacketCapture ----
  capture_running_,   \* PacketCapture::running_
  socket_open,        \* socket_ is open
  messages_received_, messages_dropped_, messages_invalid_,
  cap,                \* the capture thread: position and datagram being parsed
  arrived,            \* number of records delivered by the socket so far
  badArrived,         \* how many of them fail a sequence, symbol, type or size check
  residuals,          \* datagrams handled so far that ended in a partial record
  \* ---- CaptureNode ----
  node_running_,      \* CaptureNode::running_
  messages_processed_, last_sequence_,
  proc,               \* the processor thread: position, batch and index in it
  stats,              \* position of the status thread
  sup,                \* position of the supervisor thread in start()/stop()
  caller,             \* a second control thread calling start() or stop()
  life,               \* history: what the supervisor's start() and stop() calls did
  gaps,               \* gap events emitted, in order
  \* ---- TickStorage ----
  files_, total_messages_, total_bytes_,
  stored,             \* records passed to store(), in order
  flushed             \* flush() has been called by stop()

msgVars   == <<msg, lastOp>>
ringVars  == <<ring_buffer_size, write_idx_, read_idx_, buffer_, mask_, total_pushed_, total_popped_, push_failures_>>
frameVars == <<push, pop, bulk, obs>>
histVars  == <<pushCalls, prodStopped, drained, pushed, popped>>
capVars   == <<capture_running_, socket_open, messages_received_, messages_dropped_,
               messages_invalid_, cap, arrived, badArrived, residuals>>
procVars  == <<node_running_, messages_processed_, last_sequence_, proc, stats, sup, caller, life, gaps>>
storVars  == <<files_, total_messages_, total_bytes_, stored, flushed>>
nodeVars  == <<capVars, procVars, storVars>>
vars == <<msgVars, ringVars, frameVars, histVars, nodeVars>>

----------------------------------------------------------------------------
\* Bounds of the model
RingSize     == 3     \* ring_buffer_size of the SpecRing ring (rounded up to 4 slots)
NodeRingSize == 2     \* ring_buffer_size of the node's ring
MaxRecords   == 3     \* records the socket delivers in a run of the node
MaxPushCalls == 5     \* try_push calls of the SpecRing producer
MaxBulk      == 2     \* largest max_items the SpecRing consumer passes to pop_bulk
MaxSeq       == 2     \* largest sequence_number of an input record
SeqRingSize  == 3     \* ring_buffer_size of the node in SpecSeq
StreamLen    == 5     \* records the socket delivers in a run of SpecSeq
CapRingSize  == 3     \* ring_buffer_size of the node in SpecCap (4 slots)
FloodRecords == 16    \* records the socket delivers in a run of SpecCap: 4 per slot
FairRecords  == 2     \* records the socket delivers in a run of FairNode

----------------------------------------------------------------------------
\* Bit operations on naturals (the model keeps every word below 2^31)

RECURSIVE BitXor(_, _)
BitXor(a, b) ==
  IF a = 0 THEN b
  ELSE IF b = 0 THEN a
  ELSE (((a % 2) + (b % 2)) % 2) + 2 * BitXor(a \div 2, b \div 2)

RECURSIVE BitAnd(_, _)
BitAnd(a, b) ==
  IF a = 0 \/ b = 0 THEN 0
  ELSE ((a % 2) * (b % 2)) + 2 * BitAnd(a \div 2, b \div 2)

RECURSIVE BitOr(_, _)
BitOr(a, b) ==
  IF a = 0 THEN b
  ELSE IF b = 0 THEN a
  ELSE (IF a % 2 = 1 \/ b % 2 = 1 THEN 1 ELSE 0) + 2 * BitOr(a \div 2, b \div 2)

\* v >> k on a value below 2^31
Shr(v, k) == IF k >= 31 THEN 0 ELSE v \div (2 ^ k)

\* low and high 32-bit word of a 64-bit field (little-endian host)
Hi32(v) == (v \div 65536) \div 65536
Lo32(v) == ((v \div 65536) % 65536) * 65536 + (v % 65536)

----------------------------------------------------------------------------
\* types.hpp: MarketMessage

Trade       == 1
Quote       == 2
WordsPerMsg == 16      \* sizeof(MarketMessage) / 4
MaxSymbolId == 10000
MaxPrice    == 1000000

\* floor(log2 p) for p >= 1
RECURSIVE Log2(_)
Log2(p) == IF p <= 1 THEN 0 ELSE 1 + Log2(p \div 2)

\* IEEE-754 binary64 image of a whole, non-negative price below 2^21:
\* high word = biased exponent and the top 20 mantissa bits, low word = 0
DoubleHi(p) ==
  IF p = 0 THEN 0
  ELSE LET e == Log2(p) IN (1023 + e) * (2 ^ 20) + (p - 2 ^ e) * (2 ^ (20 - e))
DoubleLo(p) == 0

\* MarketMessage(): the default constructor
DefaultMsg ==
  [sequence_number |-> 0, timestamp |-> 0, checksum |-> 0, reserved |-> 0,
   symbol_id |-> 0, type |-> Trade, padding |-> 0,
   price |-> 0, size |-> 0, flags |-> 0, trade_padding |-> 0,
   tail |-> <<0, 0, 0, 0>>]

\* the sixteen 32-bit words of the record, as reinterpret_cast<const uint32_t*> sees them
Words(m) ==
  [i \in 0 .. WordsPerMsg - 1 |->
     CASE i = 0  -> Lo32(m.sequence_number)
       [] i = 1  -> Hi32(m.sequence_number)
       [] i = 2  -> Lo32(m.timestamp)
       [] i = 3  -> Hi32(m.timestamp)
       [] i = 4  -> m.checksum
       [] i = 5  -> m.reserved
       [] i = 6  -> m.symbol_id
       [] i = 7  -> m.type + 256 * m.padding
       [] i = 8  -> DoubleLo(m.price)
       [] i = 9  -> DoubleHi(m.price)
       [] i = 10 -> m.size
       [] i = 11 -> m.flags + 256 * m.trade_padding
       [] OTHER  -> m.tail[i - 11]]

\* the loop of calculate_checksum: for (i = from; i < 16; ++i) sum ^= ptr[i]
RECURSIVE ChecksumLoop(_, _, _)
ChecksumLoop(ptr, i, sum) ==
  IF i < WordsPerMsg THEN ChecksumLoop(ptr, i + 1, BitXor(sum, ptr[i])) ELSE sum

calculate_checksum(m) == ChecksumLoop(Words(m), 2, 0)

is_valid(m) ==
  /\ m.sequence_number > 0
  /\ m.symbol_id > 0
  /\ m.symbol_id <= MaxSymbolId
  /\ m.type = Trade
  /\ m.price > 0
  /\ m.price < MaxPrice
  /\ m.size > 0
  /\ m.checksum = calculate_checksum(m)

update_checksum(m) == [m EXCEPT !.checksum = calculate_checksum(m)]

----------------------------------------------------------------------------
\* ring_buffer.hpp: RingBuffer<MarketMessage>

\* mutant: without the decrement of line 121
next_power_of_2_NoDecrement(v0) ==
  LET v1 == v0
      v2 == BitOr(v1, Shr(v1, 1))
      v3 == BitOr(v2, Shr(v2, 2))
      v4 == BitOr(v3, Shr(v3, 4))
      v5 == BitOr(v4, Shr(v4, 8))
      v6 == BitOr(v5, Shr(v5, 16))
      v7 == BitOr(v6, Shr(v6, 32))
  IN  v7 + 1

\* lines 120-129
next_power_of_2(v0) ==
  LET v1 == v0 - 1
      v2 == BitOr(v1, Shr(v1, 1))
      v3 == BitOr(v2, Shr(v2, 2))
      v4 == BitOr(v3, Shr(v3, 4))
      v5 == BitOr(v4, Shr(v4, 8))
      v6 == BitOr(v5, Shr(v5, 16))
      v7 == BitOr(v6, Shr(v6, 32))
  IN  v7 + 1

\* capacity(): buffer_.size()
capacity == Cardinality(DOMAIN buffer_)

NextIndex(i) == BitAnd(i + 1, mask_)

\* std::optional<T>: <<>> is nullopt, <<x>> holds x
nullopt == <<>>

IdlePush == [pc |-> "idle", item |-> DefaultMsg, current_write |-> 0, next_write |-> 0, result |-> FALSE]
IdlePop  == [pc |-> "idle", current_read |-> 0, item |-> DefaultMsg, result |-> nullopt]
IdleBulk == [pc |-> "idle", max_items |-> 0, available |-> 0, items_popped |-> 0, dest |-> <<>>]
\* w0 and moved are history: write_idx_ at the first load, and whether both
\* indices advanced between the two loads
IdleObs  == [pc |-> "idle", read |-> 0, w0 |-> 0, result |-> 0, moved |-> FALSE]

\* lines 33-34: RingBuffer(size)
InitRing(size) ==
  /\ ring_buffer_size = size
  /\ write_idx_ = 0
  /\ read_idx_ = 0
  /\ buffer_ = [i \in 0 .. next_power_of_2(size) - 1 |-> DefaultMsg]
  /\ mask_ = next_power_of_2(size) - 1
  /\ total_pushed_ = 0
  /\ total_popped_ = 0
  /\ push_failures_ = 0
  /\ push = IdlePush
  /\ pop = IdlePop
  /\ bulk = IdleBulk
  /\ obs = IdleObs

\* ---- try_push(item) ----

\* the caller enters try_push
CallPush(item) == push' = [IdlePush EXCEPT !.pc = "load", !.item = item]

\* mutant: the full check is left out
PushLoad_NoFullCheck ==
  /\ push.pc = "load"
  /\ push' = [push EXCEPT !.current_write = write_idx_, !.next_write = NextIndex(write_idx_),
                           !.pc = "write"]
  /\ UNCHANGED <<ringVars, pop, bulk, obs>>

\* mutant: the ring counts as full with two slots free
PushLoad_FullOneEarly ==
  /\ push.pc = "load"
  /\ LET cw == write_idx_
         nw == NextIndex(cw)
     IN  push' = [push EXCEPT !.current_write = cw, !.next_write = nw,
                              !.pc = IF nw = read_idx_ \/ NextIndex(nw) = read_idx_
                                     THEN "fail" ELSE "write"]
  /\ UNCHANGED <<ringVars, pop, bulk, obs>>

\* lines 37-41: load write_idx_, compute next_write, compare with read_idx_
PushLoad ==
  /\ push.pc = "load"
  /\ LET cw == write_idx_
         nw == NextIndex(cw)
     IN  push' = [push EXCEPT !.current_write = cw, !.next_write = nw,
                              !.pc = IF nw = read_idx_ THEN "fail" ELSE "write"]
  /\ UNCHANGED <<ringVars, pop, bulk, obs>>

\* mutant: the failure path bumps the wrong counter
PushFail_WrongCounter ==
  /\ push.pc = "fail"
  /\ total_pushed_' = total_pushed_ + 1
  /\ push' = [push EXCEPT !.pc = "ret", !.result = FALSE]
  /\ UNCHANGED <<mask_, ring_buffer_size, write_idx_, read_idx_, buffer_, push_failures_, total_popped_, pop, bulk, obs>>

\* lines 42-43: push_failures_++; return false
PushFail ==
  /\ push.pc = "fail"
  /\ push_failures_' = push_failures_ + 1
  /\ push' = [push EXCEPT !.pc = "ret", !.result = FALSE]
  /\ UNCHANGED <<mask_, ring_buffer_size, write_idx_, read_idx_, buffer_, total_pushed_, total_popped_, pop, bulk, obs>>

\* line 47: buffer_[current_write] = item
PushWrite ==
  /\ push.pc = "write"
  /\ buffer_' = [buffer_ EXCEPT ![push.current_write] = push.item]
  /\ push' = [push EXCEPT !.pc = "store"]
  /\ UNCHANGED <<mask_, ring_buffer_size, write_idx_, read_idx_, total_pushed_, total_popped_, push_failures_, pop, bulk, obs>>

\* line 48: write_idx_.store(next_write, release)
PushStore ==
  /\ push.pc = "store"
  /\ write_idx_' = push.next_write
  /\ push' = [push EXCEPT !.pc = "count"]
  /\ UNCHANGED <<mask_, ring_buffer_size, read_idx_, buffer_, total_pushed_, total_popped_, push_failures_, pop, bulk, obs>>

\* lines 49-50: total_pushed_++; return true
PushCount ==
  /\ push.pc = "count"
  /\ total_pushed_' = total_pushed_ + 1
  /\ push' = [push EXCEPT !.pc = "ret", !.result = TRUE]
  /\ UNCHANGED <<mask_, ring_buffer_size, write_idx_, read_idx_, buffer_, total_popped_, push_failures_, pop, bulk, obs>>

\* ---- try_pop() ----

CallPop == pop' = [IdlePop EXCEPT !.pc = "load"]

\* mutant: the empty check is left out
PopLoad_NoEmptyCheck ==
  /\ pop.pc = "load"
  /\ pop' = [pop EXCEPT !.current_read = read_idx_, !.pc = "read"]
  /\ UNCHANGED <<ringVars, push, bulk, obs>>

\* lines 54-59: load read_idx_, compare with write_idx_; nullopt when equal
PopLoad ==
  /\ pop.pc = "load"
  /\ LET cr == read_idx_
     IN  pop' = IF cr = write_idx_
                THEN [pop EXCEPT !.current_read = cr, !.pc = "ret", !.result = nullopt]
                ELSE [pop EXCEPT !.current_read = cr, !.pc = "read"]
  /\ UNCHANGED <<ringVars, push, bulk, obs>>

\* mutant: the item is taken from the slot after current_read
PopRead_WrongSlot ==
  /\ pop.pc = "read"
  /\ pop' = [pop EXCEPT !.item = buffer_[NextIndex(pop.current_read)], !.pc = "store"]
  /\ UNCHANGED <<ringVars, push, bulk, obs>>

\* line 62: T item = buffer_[current_read]
PopRead ==
  /\ pop.pc = "read"
  /\ pop' = [pop EXCEPT !.item = buffer_[pop.current_read], !.pc = "store"]
  /\ UNCHANGED <<ringVars, push, bulk, obs>>

\* lines 63-64: read_idx_.store((current_read + 1) & mask_, release)
PopStore ==
  /\ pop.pc = "store"
  /\ read_idx_' = NextIndex(pop.current_read)
  /\ pop' = [pop EXCEPT !.pc = "count"]
  /\ UNCHANGED <<mask_, ring_buffer_size, write_idx_, buffer_, total_pushed_, total_popped_, push_failures_, push, bulk, obs>>

\* mutant: the pop is not counted
PopCount_NoCount ==
  /\ pop.pc = "count"
  /\ pop' = [pop EXCEPT !.pc = "ret", !.result = <<pop.item>>]
  /\ UNCHANGED <<ringVars, push, bulk, obs>>

\* lines 65-66: total_popped_++; return item
PopCount ==
  /\ pop.pc = "count"
  /\ total_popped_' = total_popped_ + 1
  /\ pop' = [pop EXCEPT !.pc = "ret", !.result = <<pop.item>>]
  /\ UNCHANGED <<mask_, ring_buffer_size, write_idx_, read_idx_, buffer_, total_pushed_, push_failures_, push, bulk, obs>>

\* ---- size() ----

\* mutant: the wrapped case adds the distance instead of subtracting it
SizeOf_WrapAdds(read, write) == IF write >= read THEN write - read ELSE capacity + (read - write)

\* line 107: write >= read ? write - read : buffer_.size() - (read - write)
SizeOf(read, write) == IF write >= read THEN write - read ELSE capacity - (read - write)

\* ---- pop_bulk(dest, max_items) ----

CallBulk(max) == bulk' = [IdleBulk EXCEPT !.pc = "size", !.max_items = max]

\* lines 72-73: items_popped = 0; available = size()
BulkSize ==
  /\ bulk.pc = "size"
  /\ bulk' = [bulk EXCEPT !.available = SizeOf(read_idx_, write_idx_), !.pc = "loop"]
  /\ UNCHANGED <<ringVars, push, pop, obs>>

\* the bound of the loop that runs: max_items (line 77) or available (line 87)
BulkLimit == IF bulk.available >= bulk.max_items THEN bulk.max_items ELSE bulk.available

\* lines 77-78 / 87-88: loop test, then call try_pop(); line 96 when the loop ends
BulkLoop ==
  /\ bulk.pc = "loop"
  /\ IF bulk.items_popped < BulkLimit
     THEN /\ bulk' = [bulk EXCEPT !.pc = "pop"]
          /\ CallPop
     ELSE /\ bulk' = [bulk EXCEPT !.pc = "ret"]
          /\ pop' = pop
  /\ UNCHANGED <<ringVars, push, obs>>

\* lines 78-83 / 88-93: *dest++ = *item; ++items_popped, or break on nullopt
BulkTake ==
  /\ bulk.pc = "pop"
  /\ pop.pc = "ret"
  /\ bulk' = IF pop.result # nullopt
             THEN [bulk EXCEPT !.dest = Append(@, pop.result[1]),
                               !.items_popped = @ + 1, !.pc = "loop"]
             ELSE [bulk EXCEPT !.pc = "ret"]
  /\ pop' = IdlePop
  /\ UNCHANGED <<ringVars, push, obs>>

\* lines 104-108, called by a monitoring thread: the two index loads are two steps
SizeLoadRead ==
  /\ obs.pc \in {"idle", "ret"}
  /\ obs' = [IdleObs EXCEPT !.pc = "read", !.read = read_idx_, !.w0 = write_idx_]
  /\ UNCHANGED <<ringVars, push, pop, bulk>>

SizeLoadWrite ==
  /\ obs.pc = "read"
  /\ obs' = [IdleObs EXCEPT !.pc = "ret", !.result = SizeOf(obs.read, write_idx_),
                            !.moved = (read_idx_ # obs.read /\ write_idx_ # obs.w0)]
  /\ UNCHANGED <<ringVars, push, pop, bulk>>

----------------------------------------------------------------------------
\* tick_storage.cpp: TickStorage

RecordBytes == 64      \* sizeof(MarketMessage)

\* mutant: a new handle on every call
get_file_handle_AlwaysNew(fs, symbol_id) ==
  [s \in DOMAIN fs \cup {symbol_id} |->
     IF s = symbol_id
     THEN [data |-> <<>>, messages_written |-> 0, bytes_written |-> 0]
     ELSE fs[s]]

\* lines 51-70: get_file_handle creates the handle on the first use of a symbol
get_file_handle(fs, symbol_id) ==
  IF symbol_id \in DOMAIN fs
  THEN fs
  ELSE [s \in DOMAIN fs \cup {symbol_id} |->
          IF s = symbol_id
          THEN [data |-> <<>>, messages_written |-> 0, bytes_written |-> 0]
          ELSE fs[s]]

\* lines 14-24: write the 64 bytes to the symbol's file, update the handle
StoreInto(fs, m) ==
  LET fs1 == get_file_handle(fs, m.symbol_id)
  IN  [fs1 EXCEPT ![m.symbol_id] =
         [data |-> Append(@.data, m),
          messages_written |-> @.messages_written + 1,
          bytes_written |-> @.bytes_written + RecordBytes]]

----------------------------------------------------------------------------
\* packet_capture.cpp: PacketCapture

\* uint64_t values as four 16-bit limbs, least significant first
Limb == 65536
U64(n) == <<n % Limb, (n \div Limb) % Limb, 0, 0>>

\* a - b on uint64_t: limb by limb with borrow, wrapping modulo 2^64
RECURSIVE SubLimbs(_, _, _, _)
SubLimbs(a, b, i, borrow) ==
  IF i > 4 THEN <<>>
  ELSE LET d == a[i] - b[i] - borrow
       IN  <<(IF d < 0 THEN d + Limb ELSE d)>> \o SubLimbs(a, b, i + 1, IF d < 0 THEN 1 ELSE 0)
SubU64(a, b) == SubLimbs(a, b, 1, 0)

\* a <= b on uint64_t
RECURSIVE LeLimbs(_, _, _)
LeLimbs(a, b, i) ==
  IF i = 0 THEN TRUE
  ELSE IF a[i] # b[i] THEN a[i] < b[i]
  ELSE LeLimbs(a, b, i - 1)
LeU64(a, b) == LeLimbs(a, b, 4)

\* lines 144-151: PacketCapture::get_stats
get_stats ==
  [messages_received  |-> U64(messages_received_),
   messages_dropped   |-> U64(messages_dropped_),
   messages_invalid   |-> U64(messages_invalid_),
   messages_processed |-> SubU64(U64(messages_received_), U64(messages_dropped_))]

\* CaptureConfig::verify_checksums, as the node is configured (the default)
verify_checksums == TRUE

\* mutant: the symbol_id == 0 test is missing
validate_message_NoZeroSymbol(m) ==
  ~ \/ m.sequence_number = 0
    \/ m.symbol_id > MaxSymbolId
    \/ m.type # Trade
    \/ m.price <= 0
    \/ m.price > MaxPrice
    \/ m.size = 0

\* mutant: symbol_id equal to the limit is rejected too
validate_message_SymbolAtLimit(m) ==
  ~ \/ m.sequence_number = 0
    \/ m.symbol_id = 0
    \/ m.symbol_id >= MaxSymbolId
    \/ m.type # Trade
    \/ m.price <= 0
    \/ m.price > MaxPrice
    \/ m.size = 0

\* lines 134-142
validate_message(m) ==
  ~ \/ m.sequence_number = 0
    \/ m.symbol_id = 0
    \/ m.symbol_id > MaxSymbolId
    \/ m.type # Trade
    \/ m.price <= 0
    \/ m.price > MaxPrice
    \/ m.size = 0

\* the checks on sequence_number, symbol_id, type and size
ListedOk(m) ==
  /\ m.sequence_number > 0
  /\ 1 <= m.symbol_id /\ m.symbol_id <= MaxSymbolId
  /\ m.type = Trade
  /\ m.size > 0

\* left: records of the received datagram not yet parsed; rec: the record being
\* pushed.  The bytes of a record are chosen when the loop reaches it: nothing
\* else reads recv_buffer_.
IdleCap  == [pc |-> "none", left |-> 0, rec |-> DefaultMsg]
IdleProc == [pc |-> "none", batch |-> <<>>, i |-> 0]

\* calls: the start()/stop() calls made; started, joined: the threads those
\* calls started and joined, in order; flushes: their calls of flush()
InitLife == [calls |-> <<>>, started |-> <<>>, joined |-> <<>>, flushes |-> 0]

\* the node after CaptureNode(config): socket set up, no thread started
InitNode ==
  /\ capture_running_ = FALSE
  /\ socket_open = TRUE
  /\ messages_received_ = 0
  /\ messages_dropped_ = 0
  /\ messages_invalid_ = 0
  /\ cap = IdleCap
  /\ arrived = 0
  /\ badArrived = 0
  /\ residuals = 0
  /\ node_running_ = FALSE
  /\ messages_processed_ = 0
  /\ last_sequence_ = 0
  /\ proc = IdleProc
  /\ stats = "none"
  /\ sup = "constructed"
  /\ caller = "idle"
  /\ life = InitLife
  /\ gaps = <<>>
  /\ files_ = <<>>
  /\ total_messages_ = 0
  /\ total_bytes_ = 0
  /\ stored = <<>>
  /\ flushed = FALSE

----------------------------------------------------------------------------
\* Input records

MkTrade(seq, ts, sym) ==
  [DefaultMsg EXCEPT !.sequence_number = seq, !.timestamp = ts, !.symbol_id = sym,
                     !.type = Trade, !.price = 100, !.size = 10]

InitHist ==
  /\ pushCalls = 0
  /\ prodStopped = FALSE
  /\ drained = FALSE
  /\ pushed = <<>>
  /\ popped = <<>>

InitMsgIdle == msg = DefaultMsg /\ lastOp = "none"

----------------------------------------------------------------------------
\* SpecRing: one producer, one consumer, one monitoring thread

\* the producer numbers its records 1, 2, 3, ... and picks the symbol
RingSymbols == {1}
RingItem(n, sym) == MkTrade(n, 0, sym)

ProducerCall ==
  /\ push.pc = "idle"
  /\ ~prodStopped
  /\ pushCalls < MaxPushCalls
  /\ \E sym \in RingSymbols : CallPush(RingItem(pushCalls + 1, sym))
  /\ pushCalls' = pushCalls + 1
  /\ UNCHANGED <<ringVars, pop, bulk, obs, prodStopped, drained, pushed, popped, msgVars, nodeVars>>

ProducerReturn ==
  /\ push.pc = "ret"
  /\ push' = IdlePush
  /\ UNCHANGED <<ringVars, pop, bulk, obs, histVars, msgVars, nodeVars>>

ProducerStop ==
  /\ push.pc = "idle"
  /\ ~prodStopped
  /\ prodStopped' = TRUE
  /\ UNCHANGED <<ringVars, frameVars, pushCalls, drained, pushed, popped, msgVars, nodeVars>>

RPushLoad  == PushLoad  /\ UNCHANGED <<histVars, msgVars, nodeVars>>
RPushFail  == PushFail  /\ UNCHANGED <<histVars, msgVars, nodeVars>>
RPushWrite == PushWrite /\ UNCHANGED <<histVars, msgVars, nodeVars>>
RPushStore == PushStore /\ UNCHANGED <<histVars, msgVars, nodeVars>>
\* the step that returns true records the item
RPushCount ==
  /\ PushCount
  /\ pushed' = Append(pushed, push.item)
  /\ UNCHANGED <<pushCalls, prodStopped, drained, popped, msgVars, nodeVars>>

ConsumerCallPop ==
  /\ pop.pc = "idle"
  /\ bulk.pc = "idle"
  /\ CallPop
  /\ UNCHANGED <<ringVars, push, bulk, obs, histVars, msgVars, nodeVars>>

ConsumerPopReturn ==
  /\ pop.pc = "ret"
  /\ bulk.pc = "idle"
  /\ popped' = popped \o pop.result
  /\ pop' = IdlePop
  /\ UNCHANGED <<ringVars, push, bulk, obs, pushCalls, prodStopped, drained, pushed, msgVars, nodeVars>>

ConsumerCallBulk ==
  /\ pop.pc = "idle"
  /\ bulk.pc = "idle"
  /\ \E max \in 1 .. MaxBulk : CallBulk(max)
  /\ UNCHANGED <<ringVars, push, pop, obs, histVars, msgVars, nodeVars>>

ConsumerBulkReturn ==
  /\ bulk.pc = "ret"
  /\ popped' = popped \o bulk.dest
  /\ bulk' = IdleBulk
  /\ UNCHANGED <<ringVars, push, pop, obs, pushCalls, prodStopped, drained, pushed, msgVars, nodeVars>>

\* an empty observation made after the producer stopped completes the run
RPopLoad ==
  /\ PopLoad
  /\ drained' = (drained \/ (prodStopped /\ read_idx_ = write_idx_))
  /\ UNCHANGED <<pushCalls, prodStopped, pushed, popped, msgVars, nodeVars>>
RPopRead  == PopRead  /\ UNCHANGED <<histVars, msgVars, nodeVars>>
RPopStore == PopStore /\ UNCHANGED <<histVars, msgVars, nodeVars>>
RPopCount == PopCount /\ UNCHANGED <<histVars, msgVars, nodeVars>>
RBulkSize == BulkSize /\ UNCHANGED <<histVars, msgVars, nodeVars>>
RBulkLoop == BulkLoop /\ UNCHANGED <<histVars, msgVars, nodeVars>>
RBulkTake == BulkTake /\ UNCHANGED <<histVars, msgVars, nodeVars>>
RSizeLoadRead  == SizeLoadRead  /\ UNCHANGED <<histVars, msgVars, nodeVars>>
RSizeLoadWrite == SizeLoadWrite /\ UNCHANGED <<histVars, msgVars, nodeVars>>

InitRingSpec == InitRing(RingSize) /\ InitHist /\ InitMsgIdle /\ InitNode

NextRing ==
  \/ ProducerCall \/ ProducerReturn \/ ProducerStop
  \/ RPushLoad \/ RPushFail \/ RPushWrite \/ RPushStore \/ RPushCount
  \/ ConsumerCallPop \/ ConsumerPopReturn \/ ConsumerCallBulk \/ ConsumerBulkReturn
  \/ RPopLoad \/ RPopRead \/ RPopStore \/ RPopCount
  \/ RBulkSize \/ RBulkLoop \/ RBulkTake
  \/ RSizeLoadRead \/ RSizeLoadWrite

SpecRing == InitRingSpec /\ [][NextRing]_vars

----------------------------------------------------------------------------
\* Properties of the ring buffer (SpecRing)

IsPrefix(s, t) == Len(s) <= Len(t) /\ SubSeq(t, 1, Len(s)) = s

BagOfSeq(s) ==
  [x \in {s[i] : i \in DOMAIN s} |-> Cardinality({i \in DOMAIN s : s[i] = x})]

\* the item of a try_push that has published its slot and is about to return true
InFlightPush == IF push.pc = "count" THEN <<push.item>> ELSE <<>>

\* the items published to the consumer so far, in push order
Published == pushed \o InFlightPush

\* C1: with one producer and one consumer, the items returned to the consumer
\* (by try_pop and pop_bulk) form a prefix of the items whose try_push succeeds,
\* in push order: nothing is reordered, duplicated or invented.
C1_FifoPrefix == IsPrefix(popped, Published)

\* the consumer got more items than the ring has slots: slot 0 has been reused
C1_Witness == Len(popped) > capacity

\* the run is complete: the producer stopped and the consumer popped until
\* try_pop found the ring empty
Completed ==
  /\ prodStopped
  /\ drained
  /\ push.pc = "idle"
  /\ pop.pc = "idle"
  /\ bulk.pc = "idle"

\* C4: over a completed run the multiset of popped values equals the multiset
\* of successfully pushed values and total_popped() = total_pushed().
C4_CompletedRunMultiset ==
  Completed => /\ BagOfSeq(popped) = BagOfSeq(pushed)
               /\ total_popped_ = total_pushed_

C4_Witness == Completed /\ Len(popped) >= capacity /\ push_failures_ > 0

\* C5: every value size() returns lies in 0 .. capacity() - 1, also when both
\* indices advance between its two loads.
C5_SizeInRange == obs.pc = "ret" => (0 <= obs.result /\ obs.result <= capacity - 1)

\* size() returned after both indices advanced between its loads, with a
\* value that is not the current occupancy
C5_Witness ==
  /\ obs.pc = "ret"
  /\ obs.moved
  /\ obs.result # SizeOf(read_idx_, write_idx_)

\* C6: a try_push that finds the ring exactly full returns false, changes no
\* slot, no index and not total_pushed, and adds exactly one to push_failures.
C6_FullPushFails ==
  [][ /\ (push.pc = "load" /\ NextIndex(write_idx_) = read_idx_ /\ push' # push)
         => (push'.pc = "fail" /\ UNCHANGED ringVars)
      /\ (push.pc = "fail" /\ push' # push)
         => /\ push'.pc = "ret"
            /\ push'.result = FALSE
            /\ push_failures_' = push_failures_ + 1
            /\ UNCHANGED <<buffer_, write_idx_, read_idx_, total_pushed_, total_popped_>> ]_vars

\* a try_push has just returned false on a full ring
C6_Witness ==
  /\ push.pc = "ret"
  /\ push.result = FALSE
  /\ push_failures_ = 1
  /\ NextIndex(write_idx_) = read_idx_

\* C20: pop_bulk(out, max) returns a count <= max with exactly count items
\* written to out, in FIFO order, and it stops short of max only when the ring
\* is observed empty (by its size() call or by a pop): items the producer
\* pushes during the call are drained too, so after a non-empty observation
\* the loop never ends below max while the ring holds an item.
C20_BulkDrainsUntilEmpty ==
  /\ [](/\ bulk.items_popped <= bulk.max_items
        /\ Len(bulk.dest) = bulk.items_popped
        /\ IsPrefix(popped \o bulk.dest, Published))
  /\ [][(bulk.pc = "loop" /\ bulk'.pc = "ret") =>
          \/ bulk.items_popped = bulk.max_items
          \/ bulk.available = 0
          \/ read_idx_ = write_idx_]_vars

----------------------------------------------------------------------------
\* SpecMsg: the record operations of types.hpp applied to one record, whose
\* fields are stored the way the sender fills them

SeqInputs       == 0 .. MaxSeq
TimestampInputs == {0, 1}
ChecksumInputs  == {0, 1, 7}
SymbolInputs    == {0, 1, MaxSymbolId}
PriceInputs     == {0, 100, MaxPrice - 1}
SizeInputs      == {0, 10}

InitMsg ==
  /\ \E seq \in SeqInputs, ts \in TimestampInputs, c \in ChecksumInputs :
       msg = [MkTrade(seq, ts, 1) EXCEPT !.checksum = c]
  /\ lastOp = "init"

othersIdle == UNCHANGED <<ringVars, frameVars, histVars, nodeVars>>

SetSequence ==
  /\ \E v \in SeqInputs : msg' = [msg EXCEPT !.sequence_number = v]
  /\ lastOp' = "sequence_number"
  /\ othersIdle

SetTimestamp ==
  /\ \E v \in TimestampInputs : msg' = [msg EXCEPT !.timestamp = v]
  /\ lastOp' = "timestamp"
  /\ othersIdle

SetChecksum ==
  /\ \E v \in ChecksumInputs : msg' = [msg EXCEPT !.checksum = v]
  /\ lastOp' = "checksum"
  /\ othersIdle

SetSymbol ==
  /\ \E v \in SymbolInputs : msg' = [msg EXCEPT !.symbol_id = v]
  /\ lastOp' = "symbol_id"
  /\ othersIdle

SetPrice ==
  /\ \E v \in PriceInputs : msg' = [msg EXCEPT !.price = v]
  /\ lastOp' = "price"
  /\ othersIdle

SetSize ==
  /\ \E v \in SizeInputs : msg' = [msg EXCEPT !.size = v]
  /\ lastOp' = "size"
  /\ othersIdle

\* seal: msg.update_checksum()
Seal ==
  /\ msg' = update_checksum(msg)
  /\ lastOp' = "seal"
  /\ othersIdle

NextMsg ==
  \/ SetSequence \/ SetTimestamp \/ SetChecksum \/ SetSymbol \/ SetPrice \/ SetSize
  \/ Seal

InitMsgSpec == InitMsg /\ InitRing(RingSize) /\ InitHist /\ InitNode

SpecMsg == InitMsgSpec /\ [][NextMsg]_vars

\* the field-range invariants of a valid record, the checksum apart
FieldRangesOk(m) ==
  /\ m.sequence_number > 0
  /\ 1 <= m.symbol_id /\ m.symbol_id <= MaxSymbolId
  /\ m.type = Trade
  /\ 0 < m.price /\ m.price < MaxPrice
  /\ m.size > 0

\* C9: checksum round trip: a record whose other fields are in range is valid
\* once it has been sealed, whatever its checksum field held before.
C9_SealedRecordIsValid ==
  (lastOp = "seal" /\ FieldRangesOk(msg)) => is_valid(msg)

\* XOR of the words of ptr whose index is in idx
RECURSIVE XorOver(_, _)
XorOver(ptr, idx) ==
  IF idx = {} THEN 0
  ELSE LET i == CHOOSE j \in idx : TRUE
       IN  BitXor(ptr[i], XorOver(ptr, idx \ {i}))

ChecksumWord == 4

\* C10: calculate_checksum is the XOR of all sixteen words except word 4 (the
\* checksum word): it does not depend on the checksum field, and it changes
\* when one other word, such as a word of sequence_number, changes.
C10_ChecksumCoversAllButItself ==
  /\ calculate_checksum(msg) = XorOver(Words(msg), (0 .. WordsPerMsg - 1) \ {ChecksumWord})
  /\ \A c \in ChecksumInputs :
       calculate_checksum([msg EXCEPT !.checksum = c]) = calculate_checksum(msg)
  /\ \A v \in SeqInputs :
       v # msg.sequence_number
         => calculate_checksum([msg EXCEPT !.sequence_number = v]) # calculate_checksum(msg)

----------------------------------------------------------------------------
\* SpecNode: CaptureNode with its capture, processor and status threads, and a
\* supervisor that calls start() and later stop()

batch_size == 32       \* capture_node.cpp: constexpr size_t batch_size

NodeSymbols == {1, 2}

\* records the socket can deliver as the n-th record of the run.  The sender
\* numbers its records 1, 2, 3, ... (market_data_simulator.cpp:126) and stamps
\* them; a valid trade is for one of the symbols, and there is one bad record
\* for each way validate_message can fail.
ValidInputs(n) == {MkTrade(n, n, sym) : sym \in NodeSymbols}
BadInputs(n) ==
  LET ok == MkTrade(n, n, 1)
  IN  { [ok EXCEPT !.sequence_number = 0],
        [ok EXCEPT !.symbol_id = 0],
        [ok EXCEPT !.symbol_id = MaxSymbolId + 1],
        [ok EXCEPT !.type = Quote],
        [ok EXCEPT !.price = 0],
        [ok EXCEPT !.price = MaxPrice + 1],
        [ok EXCEPT !.size = 0] }
NodeInputs(n) == ValidInputs(n) \cup BadInputs(n)

ringIdle == UNCHANGED <<ringVars, frameVars, histVars, msgVars>>

\* ---- supervisor: CaptureNode::start / stop ----

\* capture_node.cpp 19-37 with PacketCapture::start (packet_capture.cpp 46-51)
Start ==
  /\ sup = "constructed"
  /\ ~node_running_
  /\ node_running_' = TRUE
  /\ IF capture_running_
     THEN UNCHANGED <<capture_running_, cap>>
     ELSE capture_running_' = TRUE /\ cap' = [IdleCap EXCEPT !.pc = "loop"]
  /\ proc' = [IdleProc EXCEPT !.pc = "loop"]
  /\ stats' = "loop"
  /\ sup' = "started"
  /\ life' = [life EXCEPT !.calls = Append(@, "start"),
                      !.started = @ \o (IF capture_running_ THEN <<>> ELSE <<"capture">>)
                                    \o <<"process", "stats">>]
  /\ UNCHANGED caller
  /\ UNCHANGED <<socket_open, messages_received_, messages_dropped_, messages_invalid_, arrived,
                 badArrived, residuals, messages_processed_, last_sequence_, gaps, storVars>>
  /\ ringIdle

\* capture_node.cpp 40-42: if (!running_) return; running_ = false
StopBegin ==
  /\ sup = "started"
  /\ node_running_
  /\ node_running_' = FALSE
  /\ sup' = "capture_stop"
  /\ life' = [life EXCEPT !.calls = Append(@, "stop")]
  /\ UNCHANGED caller
  /\ UNCHANGED <<capVars, messages_processed_, last_sequence_, proc, stats, gaps, storVars>>
  /\ ringIdle

\* packet_capture.cpp 54-56: if (!running_) return; running_ = false
CaptureStopFlag ==
  /\ sup = "capture_stop"
  /\ IF capture_running_
     THEN capture_running_' = FALSE /\ sup' = "close"
     ELSE capture_running_' = capture_running_ /\ sup' = "join_proc"
  /\ UNCHANGED <<caller, life>>
  /\ UNCHANGED <<socket_open, messages_received_, messages_dropped_, messages_invalid_, cap, arrived,
                 badArrived, residuals, node_running_, messages_processed_, last_sequence_, proc, stats, gaps, storVars>>
  /\ ringIdle

\* packet_capture.cpp 59-60: socket_.close(ec)
CaptureClose ==
  /\ sup = "close"
  /\ socket_open' = FALSE
  /\ sup' = "join_capture"
  /\ UNCHANGED <<caller, life>>
  /\ UNCHANGED <<capture_running_, messages_received_, messages_dropped_, messages_invalid_, cap,
                 arrived, badArrived, residuals, node_running_, messages_processed_, last_sequence_, proc, stats, gaps,
                 storVars>>
  /\ ringIdle

\* packet_capture.cpp 62-64: capture_thread_.join()
JoinCapture ==
  /\ sup = "join_capture"
  /\ cap.pc = "done"
  /\ sup' = "join_proc"
  /\ life' = [life EXCEPT !.joined = Append(@, "capture")]
  /\ UNCHANGED caller
  /\ UNCHANGED <<capVars, node_running_, messages_processed_, last_sequence_, proc, stats, gaps,
                 storVars>>
  /\ ringIdle

\* mutant: stop() does not wait for the processor thread
JoinProcess_NoWait ==
  /\ sup = "join_proc"
  /\ sup' = "join_stats"
  /\ UNCHANGED <<caller, life>>
  /\ UNCHANGED <<capVars, node_running_, messages_processed_, last_sequence_, proc, stats, gaps,
                 storVars>>
  /\ ringIdle

\* capture_node.cpp 49-50: process_thread_.join()
JoinProcess ==
  /\ sup = "join_proc"
  /\ proc.pc = "done"
  /\ sup' = "join_stats"
  /\ life' = [life EXCEPT !.joined = Append(@, "process")]
  /\ UNCHANGED caller
  /\ UNCHANGED <<capVars, node_running_, messages_processed_, last_sequence_, proc, stats, gaps,
                 storVars>>
  /\ ringIdle

\* capture_node.cpp 51-52: stats_thread_.join()
JoinStats ==
  /\ sup = "join_stats"
  /\ stats = "done"
  /\ sup' = "flush"
  /\ life' = [life EXCEPT !.joined = Append(@, "stats")]
  /\ UNCHANGED caller
  /\ UNCHANGED <<capVars, node_running_, messages_processed_, last_sequence_, proc, stats, gaps,
                 storVars>>
  /\ ringIdle

\* capture_node.cpp 55 with TickStorage::flush (tick_storage.cpp 36-41)
Flush ==
  /\ sup = "flush"
  /\ flushed' = TRUE
  /\ sup' = "stopped"
  /\ life' = [life EXCEPT !.flushes = @ + 1]
  /\ UNCHANGED caller
  /\ UNCHANGED <<capVars, node_running_, messages_processed_, last_sequence_, proc, stats, gaps,
                 files_, total_messages_, total_bytes_, stored>>
  /\ ringIdle

\* ---- capture thread: PacketCapture::capture_loop ----

capRest == UNCHANGED <<procVars, storVars, msgVars, pop, bulk, obs, histVars>>

\* mutant: the capture loop does not test running_
CapLoopTest_IgnoresFlag ==
  /\ cap.pc = "loop"
  /\ cap' = [cap EXCEPT !.pc = "recv"]
  /\ UNCHANGED <<capture_running_, socket_open, messages_received_, messages_dropped_,
                 messages_invalid_, arrived, badArrived, residuals, ringVars, push>>
  /\ capRest

\* line 73: while (running_)
CapLoopTest ==
  /\ cap.pc = "loop"
  /\ cap' = [cap EXCEPT !.pc = IF capture_running_ THEN "recv" ELSE "done"]
  /\ UNCHANGED <<capture_running_, socket_open, messages_received_, messages_dropped_,
                 messages_invalid_, arrived, badArrived, residuals, ringVars, push>>
  /\ capRest

\* lines 77-93: receive_from returns a datagram holding k complete records
\* (and possibly a partial one after them); the socket delivers at most limit
\* records in a run, and the call blocks when nothing more arrives
CapReceiveUpTo(limit) ==
  /\ cap.pc = "recv"
  /\ socket_open
  /\ \E k \in 1 .. limit - arrived :
       cap' = [cap EXCEPT !.pc = "record", !.left = k]
  /\ UNCHANGED <<arrived, badArrived, residuals>>
  /\ UNCHANGED <<capture_running_, socket_open, messages_received_, messages_dropped_,
                 messages_invalid_, ringVars, push>>
  /\ capRest

\* lines 80-85: receive_from fails on the closed socket; continue
CapReceiveError ==
  /\ cap.pc = "recv"
  /\ ~socket_open
  /\ cap' = [cap EXCEPT !.pc = "loop"]
  /\ UNCHANGED <<capture_running_, socket_open, messages_received_, messages_dropped_,
                 messages_invalid_, arrived, badArrived, residuals, ringVars, push>>
  /\ capRest

CapReceive == CapReceiveUpTo(MaxRecords)

\* bytes_received % sizeof(MarketMessage) of a datagram: 0, or a partial record
ResidualInputs == {0, 20}
\* datagrams made of complete records only
WholeRecords == {0}

\* lines 94-99 and 112-123: next record of the datagram; validate it, then
\* enter try_push or count it invalid.  In[n] are the records that can arrive
\* as the n-th of the run, Res the lengths of what can trail the last complete
\* record.  When fewer than 64 bytes are left (line 94) the loop ends and the
\* trailing bytes are dropped.
CapRecordOf(In, Res) ==
  /\ cap.pc = "record"
  /\ IF cap.left = 0
     THEN /\ cap' = [cap EXCEPT !.pc = "loop"]
          /\ \E r \in Res : residuals' = residuals + (IF r > 0 THEN 1 ELSE 0)
          /\ UNCHANGED <<messages_invalid_, push, arrived, badArrived>>
     ELSE \E m \in In[arrived + 1] :
            /\ UNCHANGED residuals
            /\ arrived' = arrived + 1
            /\ badArrived' = badArrived + (IF ListedOk(m) THEN 0 ELSE 1)
            /\ IF validate_message(m)
               THEN /\ CallPush(m)
                    /\ cap' = [cap EXCEPT !.pc = "push", !.rec = m]
                    /\ UNCHANGED messages_invalid_
               ELSE /\ messages_invalid_' = messages_invalid_ + 1
                    /\ cap' = [cap EXCEPT !.left = @ - 1]
                    /\ UNCHANGED push
  /\ UNCHANGED <<capture_running_, socket_open, messages_received_, messages_dropped_, ringVars>>
  /\ capRest

CapRecord == CapRecordOf([n \in 1 .. MaxRecords |-> NodeInputs(n)], WholeRecords)

\* lines 100-111 and 123: try_push returned; count the record dropped or received
CapPushed ==
  /\ cap.pc = "push"
  /\ push.pc = "ret"
  /\ IF push.result
     THEN messages_received_' = messages_received_ + 1 /\ UNCHANGED messages_dropped_
     ELSE messages_dropped_' = messages_dropped_ + 1 /\ UNCHANGED messages_received_
  /\ push' = IdlePush
  /\ cap' = [pc |-> "record", left |-> cap.left - 1, rec |-> DefaultMsg]
  /\ UNCHANGED <<capture_running_, socket_open, messages_invalid_, arrived, badArrived, residuals, ringVars>>
  /\ capRest

\* the steps of try_push inside the capture thread
NPushLoad  == cap.pc = "push" /\ PushLoad  /\ UNCHANGED <<histVars, msgVars, nodeVars>>
NPushFail  == cap.pc = "push" /\ PushFail  /\ UNCHANGED <<histVars, msgVars, nodeVars>>
NPushWrite == cap.pc = "push" /\ PushWrite /\ UNCHANGED <<histVars, msgVars, nodeVars>>
NPushStore == cap.pc = "push" /\ PushStore /\ UNCHANGED <<histVars, msgVars, nodeVars>>
NPushCount ==
  /\ cap.pc = "push"
  /\ PushCount
  /\ pushed' = Append(pushed, push.item)
  /\ UNCHANGED <<pushCalls, prodStopped, drained, popped, msgVars, nodeVars>>

\* ---- processor thread: CaptureNode::process_messages ----

procRest == UNCHANGED <<capVars, msgVars, push, obs, ringVars>>

\* lines 63-68: while (running_), then enter pop_bulk(back_inserter(batch), batch_size)
ProcLoopTest ==
  /\ proc.pc = "loop"
  /\ IF node_running_
     THEN proc' = [proc EXCEPT !.pc = "bulk"] /\ CallBulk(batch_size)
     ELSE proc' = [proc EXCEPT !.pc = "done"] /\ UNCHANGED bulk
  /\ UNCHANGED <<node_running_, messages_processed_, last_sequence_, stats, sup, caller, life, gaps,
                 storVars, pop, histVars>>
  /\ procRest

\* mutant: the batch is walked from its last record to its first
ProcBulkReturn_ReversedBatch ==
  /\ proc.pc = "bulk"
  /\ bulk.pc = "ret"
  /\ proc' = IF bulk.items_popped > 0
             THEN [pc |-> "gap",
                   batch |-> [k \in 1 .. Len(bulk.dest) |-> bulk.dest[Len(bulk.dest) + 1 - k]],
                   i |-> 1]
             ELSE [proc EXCEPT !.pc = "loop"]
  /\ popped' = popped \o bulk.dest
  /\ bulk' = IdleBulk
  /\ UNCHANGED <<node_running_, messages_processed_, last_sequence_, stats, sup, caller, life, gaps,
                 storVars, pop, pushCalls, prodStopped, drained, pushed>>
  /\ procRest

\* lines 67-72 and 89-91: pop_bulk returned; start on the batch, or sleep and poll again
ProcBulkReturn ==
  /\ proc.pc = "bulk"
  /\ bulk.pc = "ret"
  /\ proc' = IF bulk.items_popped > 0
             THEN [pc |-> "gap", batch |-> proc.batch \o bulk.dest, i |-> 1]
             ELSE [proc EXCEPT !.pc = "loop"]
  /\ popped' = popped \o bulk.dest
  /\ bulk' = IdleBulk
  /\ UNCHANGED <<node_running_, messages_processed_, last_sequence_, stats, sup, caller, life, gaps,
                 storVars, pop, pushCalls, prodStopped, drained, pushed>>
  /\ procRest

\* mutant: the last_seq > 0 test is missing
ProcGap_NoZeroTest ==
  /\ proc.pc = "gap"
  /\ LET m == proc.batch[proc.i]
         last_seq == last_sequence_
     IN  /\ gaps' = IF m.sequence_number > last_seq + 1
                    THEN Append(gaps, <<last_seq, m.sequence_number>>)
                    ELSE gaps
         /\ last_sequence_' = m.sequence_number
  /\ proc' = [proc EXCEPT !.pc = "store"]
  /\ UNCHANGED <<node_running_, messages_processed_, stats, sup, caller, life, storVars, pop, bulk, histVars>>
  /\ procRest

\* lines 74-78: gap check against last_sequence_, then last_sequence_.store
ProcGap ==
  /\ proc.pc = "gap"
  /\ LET m == proc.batch[proc.i]
         last_seq == last_sequence_
     IN  /\ gaps' = IF last_seq > 0 /\ m.sequence_number > last_seq + 1
                    THEN Append(gaps, <<last_seq, m.sequence_number>>)
                    ELSE gaps
         /\ last_sequence_' = m.sequence_number
  /\ proc' = [proc EXCEPT !.pc = "store"]
  /\ UNCHANGED <<node_running_, messages_processed_, stats, sup, caller, life, storVars, pop, bulk, histVars>>
  /\ procRest

\* line 81: storage_->store(msg) (tick_storage.cpp 10-34)
ProcStore ==
  /\ proc.pc = "store"
  /\ LET m == proc.batch[proc.i]
     IN  /\ files_' = StoreInto(files_, m)
         /\ stored' = Append(stored, m)
  /\ total_messages_' = total_messages_ + 1
  /\ total_bytes_' = total_bytes_ + RecordBytes
  /\ proc' = [proc EXCEPT !.pc = "count"]
  /\ UNCHANGED <<node_running_, messages_processed_, last_sequence_, stats, sup, caller, life, gaps, flushed,
                 pop, bulk, histVars>>
  /\ procRest

\* lines 82-86: messages_processed_.fetch_add(1); next message, or batch.clear()
ProcCount ==
  /\ proc.pc = "count"
  /\ messages_processed_' = messages_processed_ + 1
  /\ proc' = IF proc.i < Len(proc.batch)
             THEN [proc EXCEPT !.pc = "gap", !.i = @ + 1]
             ELSE [pc |-> "loop", batch |-> <<>>, i |-> 0]
  /\ UNCHANGED <<node_running_, last_sequence_, stats, sup, caller, life, gaps, storVars, pop, bulk, histVars>>
  /\ procRest

\* the steps of pop_bulk and try_pop inside the processor thread
NBulkSize == proc.pc = "bulk" /\ BulkSize /\ UNCHANGED <<histVars, msgVars, nodeVars>>
NBulkLoop == proc.pc = "bulk" /\ BulkLoop /\ UNCHANGED <<histVars, msgVars, nodeVars>>
NBulkTake == proc.pc = "bulk" /\ BulkTake /\ UNCHANGED <<histVars, msgVars, nodeVars>>
NPopLoad  == proc.pc = "bulk" /\ PopLoad  /\ UNCHANGED <<histVars, msgVars, nodeVars>>
NPopRead  == proc.pc = "bulk" /\ PopRead  /\ UNCHANGED <<histVars, msgVars, nodeVars>>
NPopStore == proc.pc = "bulk" /\ PopStore /\ UNCHANGED <<histVars, msgVars, nodeVars>>
NPopCount == proc.pc = "bulk" /\ PopCount /\ UNCHANGED <<histVars, msgVars, nodeVars>>

\* ---- status thread: CaptureNode::report_stats ----

\* lines 99-120: while (running_): take a snapshot, print it, sleep.  The
\* thread writes no shared state, so a report leaves every variable as it was.
StatsReport ==
  /\ stats = "loop"
  /\ node_running_
  /\ UNCHANGED vars

\* line 99: the loop test fails and the thread exits
StatsExit ==
  /\ stats = "loop"
  /\ ~node_running_
  /\ stats' = "done"
  /\ UNCHANGED <<capVars, node_running_, messages_processed_, last_sequence_, proc, sup, caller, life, gaps,
                 storVars>>
  /\ ringIdle

InitNodeSpec == InitNode /\ InitRing(NodeRingSize) /\ InitHist /\ InitMsgIdle

NextNode ==
  \/ Start \/ StopBegin \/ CaptureStopFlag \/ CaptureClose
  \/ JoinCapture \/ JoinProcess \/ JoinStats \/ Flush
  \/ CapLoopTest \/ CapReceive \/ CapReceiveError \/ CapRecord \/ CapPushed
  \/ NPushLoad \/ NPushFail \/ NPushWrite \/ NPushStore \/ NPushCount
  \/ ProcLoopTest \/ ProcBulkReturn \/ ProcGap \/ ProcStore \/ ProcCount
  \/ NBulkSize \/ NBulkLoop \/ NBulkTake
  \/ NPopLoad \/ NPopRead \/ NPopStore \/ NPopCount
  \/ StatsReport \/ StatsExit

SpecNode == InitNodeSpec /\ [][NextNode]_vars

----------------------------------------------------------------------------
\* Properties of the pipeline (SpecNode)

\* number of copies of record r in the sequence s
CountIn(s, r) == Cardinality({i \in DOMAIN s : s[i] = r})

\* C2: every valid record capture pushed into the ring ends up exactly once in
\* the file of its own symbol_id, unchanged, and in no other file.  Stated for
\* the end of the run: once stop() has returned nothing is written any more.
C2_PushedRecordStoredOnce ==
  sup = "stopped" =>
    \A i \in DOMAIN pushed :
      LET r == pushed[i]
      IN  /\ r.symbol_id \in DOMAIN files_
          /\ CountIn(files_[r.symbol_id].data, r) = 1
          /\ \A s \in DOMAIN files_ \ {r.symbol_id} : CountIn(files_[s].data, r) = 0

\* C3: stop() leaves the ring drained: when it has returned the ring is empty
\* and messages_processed equals the number of successful pushes.
C3_StopDrainsRing ==
  sup = "stopped" => (read_idx_ = write_idx_ /\ messages_processed_ = total_pushed_)

\* no thread is in the middle of handling a record
Quiescent ==
  /\ cap.pc \in {"none", "loop", "recv", "record", "done"}
  /\ proc.pc \in {"none", "loop", "done"}

\* C7: observed with no record in flight in a thread, messages_received =
\* messages_processed + messages_dropped + messages_invalid + records in the ring.
C7_CounterBalance ==
  Quiescent =>
    messages_received_ = messages_processed_ + messages_dropped_ + messages_invalid_
                           + SizeOf(read_idx_, write_idx_)

\* the records of symbol s among those passed to store(), in order
StoredFor(s) == SelectSeq(stored, LAMBDA r : r.symbol_id = s)

\* C8: invalid records never reach storage and never advance last_sequence.
\* Every stored record and every value of last_sequence comes from a record that
\* passes the sequence, symbol, type and size checks; the stored records are the
\* pushed ones in push order, file by file, so the valid neighbours of an
\* invalid record end up adjacent; and a record failing one of those checks adds
\* exactly one to messages_invalid and touches neither the ring nor storage.
C8_InvalidNeverStored ==
  /\ [](/\ \A i \in DOMAIN stored : ListedOk(stored[i])
        /\ last_sequence_ # 0 =>
             \E i \in DOMAIN Published :
               Published[i].sequence_number = last_sequence_ /\ ListedOk(Published[i])
        /\ IsPrefix(stored, Published)
        /\ \A s \in DOMAIN files_ : files_[s].data = StoredFor(s))
  /\ [][badArrived' = badArrived + 1 =>
          /\ messages_invalid_' = messages_invalid_ + 1
          /\ UNCHANGED <<ringVars, push, pushed, stored, files_, last_sequence_,
                         messages_received_, messages_dropped_>>]_vars

\* record 2 was invalid; records 1 and 3 were stored one after the other
C8_Witness ==
  /\ Len(stored) = 2
  /\ stored[1].timestamp = 1
  /\ stored[2].timestamp = 3
  /\ badArrived = 1
  /\ messages_invalid_ = 1
  /\ last_sequence_ = 3

\* C11: with verify_checksums set, a record whose checksum field differs from
\* the checksum computed over it is discarded at capture: every record
\* published to the ring carries the checksum calculate_checksum gives for it.
C11_BadChecksumDiscarded ==
  verify_checksums =>
    \A i \in DOMAIN Published :
      Published[i].checksum = calculate_checksum(Published[i])

\* the positions of the supervisor in stop(), in program order, from the given one on
StopFrom(p) ==
  CASE p = "capture_stop" -> {"capture_stop", "close", "join_capture", "join_proc", "join_stats", "flush", "stopped"}
    [] p = "close"        -> {"close", "join_capture", "join_proc", "join_stats", "flush", "stopped"}
    [] p = "join_capture" -> {"join_capture", "join_proc", "join_stats", "flush", "stopped"}
    [] p = "join_proc"    -> {"join_proc", "join_stats", "flush", "stopped"}
    [] p = "join_stats"   -> {"join_stats", "flush", "stopped"}
    [] p = "flush"        -> {"flush", "stopped"}

\* C17: stop() sets the stop flag, closes the capture socket, waits for the
\* capture thread, then the processor thread, then the status thread, and only
\* then calls flush(); so from the moment flush() begins no store() call
\* starts or is running.
C17_StopOrder ==
  /\ [](/\ sup \in StopFrom("capture_stop") => ~node_running_
        /\ sup \in StopFrom("close") => ~capture_running_
        /\ sup \in StopFrom("join_capture") => ~socket_open
        /\ sup \in StopFrom("join_proc") => cap.pc = "done"
        /\ sup \in StopFrom("join_stats") => proc.pc = "done"
        /\ sup \in StopFrom("flush") => stats = "done"
        /\ flushed => sup = "stopped")
  /\ [][sup' # sup =>
          <<sup, sup'>> \in {<<"constructed", "started">>, <<"started", "capture_stop">>,
                             <<"capture_stop", "close">>, <<"close", "join_capture">>,
                             <<"join_capture", "join_proc">>, <<"join_proc", "join_stats">>,
                             <<"join_stats", "flush">>, <<"flush", "stopped">>}]_vars
  /\ [][(sup \in StopFrom("flush")) =>
          /\ proc' = proc
          /\ UNCHANGED <<stored, files_, total_messages_, total_bytes_>>]_vars

\* flush() is about to run after records were stored, with a record left in the ring
C17_Witness ==
  /\ sup = "flush"
  /\ Len(stored) > 0
  /\ read_idx_ # write_idx_

----------------------------------------------------------------------------
\* FairNode: the node under fair scheduling.  Every thread that can take a
\* step eventually takes one; a receive on the closed socket returns (with an
\* error); the arrival of a datagram is not required to happen.  The socket
\* delivers sender-numbered records for one symbol, valid or with symbol_id 0.

FairInputs(n) == {MkTrade(n, n, 1), [MkTrade(n, n, 1) EXCEPT !.symbol_id = 0]}

LCapReceive == CapReceiveUpTo(FairRecords)
LCapRecord  == CapRecordOf([n \in 1 .. FairRecords |-> FairInputs(n)], WholeRecords)

NextFair ==
  \/ Start \/ StopBegin \/ CaptureStopFlag \/ CaptureClose
  \/ JoinCapture \/ JoinProcess \/ JoinStats \/ Flush
  \/ CapLoopTest \/ LCapReceive \/ CapReceiveError \/ LCapRecord \/ CapPushed
  \/ NPushLoad \/ NPushFail \/ NPushWrite \/ NPushStore \/ NPushCount
  \/ ProcLoopTest \/ ProcBulkReturn \/ ProcGap \/ ProcStore \/ ProcCount
  \/ NBulkSize \/ NBulkLoop \/ NBulkTake
  \/ NPopLoad \/ NPopRead \/ NPopStore \/ NPopCount
  \/ StatsReport \/ StatsExit

CaptureThread ==
  \/ CapLoopTest \/ CapReceiveError \/ LCapRecord \/ CapPushed
  \/ NPushLoad \/ NPushFail \/ NPushWrite \/ NPushStore \/ NPushCount

ProcessThread ==
  \/ ProcLoopTest \/ ProcBulkReturn \/ ProcGap \/ ProcStore \/ ProcCount
  \/ NBulkSize \/ NBulkLoop \/ NBulkTake
  \/ NPopLoad \/ NPopRead \/ NPopStore \/ NPopCount

\* the steps of stop() after its first one
StopThread ==
  \/ CaptureStopFlag \/ CaptureClose \/ JoinCapture \/ JoinProcess \/ JoinStats \/ Flush

FairNode ==
  /\ InitNodeSpec
  /\ [][NextFair]_vars
  /\ WF_vars(CaptureThread)
  /\ WF_vars(ProcessThread)
  /\ WF_vars(StatsExit)
  /\ WF_vars(StopThread)

\* C19: graceful shutdown terminates.  Once stop() has been invoked on a
\* running node, the capture loop, the processor loop and the status loop each
\* exit and stop() returns.
C19_StopTerminates ==
  (sup = "capture_stop") ~>
    (sup = "stopped" /\ cap.pc = "done" /\ proc.pc = "done" /\ stats = "done")

\* stop() has returned on a node whose socket could still have delivered records
C19_Witness ==
  /\ sup = "stopped"
  /\ arrived < FairRecords
  /\ cap.pc = "done"
  /\ proc.pc = "done"
  /\ stats = "done"

----------------------------------------------------------------------------
\* SpecCtl: SpecNode with a second control thread that calls start() or stop()
\* once while the supervisor is inside stop()

\* stop() has cleared running_ and has not returned yet
StopInProgress == sup \in StopFrom("capture_stop") \ {"stopped"}

\* std::thread::joinable() of the three thread objects: started and not yet joined
CaptureJoinable == cap.pc # "none" /\ sup \notin StopFrom("join_proc")
ProcessJoinable == proc.pc # "none" /\ sup \notin StopFrom("join_stats")
StatsJoinable   == stats # "none" /\ sup \notin StopFrom("flush")

\* move-assigning to a joinable std::thread calls std::terminate: the process
\* ends with all its threads
Terminate ==
  /\ caller' = "terminated"
  /\ sup' = "terminated"
  /\ cap' = [cap EXCEPT !.pc = "dead"]
  /\ proc' = [proc EXCEPT !.pc = "dead"]
  /\ stats' = "dead"

ctlRest ==
  UNCHANGED <<life, socket_open, messages_received_, messages_dropped_, messages_invalid_, arrived,
              badArrived, residuals, messages_processed_, last_sequence_, gaps, storVars>>

\* capture_node.cpp 39-41: stop() from the second thread finds running_ false and returns
OtherStop ==
  /\ caller = "idle"
  /\ StopInProgress
  /\ ~node_running_
  /\ caller' = "returned"
  /\ UNCHANGED <<node_running_, capture_running_, cap, proc, stats, sup>>
  /\ ctlRest
  /\ ringIdle

\* capture_node.cpp 19-22: start() from the second thread finds running_ false and sets it
OtherStartFlag ==
  /\ caller = "idle"
  /\ StopInProgress
  /\ ~node_running_
  /\ node_running_' = TRUE
  /\ caller' = "start_capture"
  /\ UNCHANGED <<capture_running_, cap, proc, stats, sup>>
  /\ ctlRest
  /\ ringIdle

\* capture_node.cpp 25 with PacketCapture::start (packet_capture.cpp 46-51)
OtherStartCapture ==
  /\ caller = "start_capture"
  /\ IF capture_running_
     THEN /\ caller' = "start_process"
          /\ UNCHANGED <<capture_running_, cap, proc, stats, sup>>
     ELSE /\ capture_running_' = TRUE
          /\ IF CaptureJoinable
             THEN Terminate
             ELSE /\ cap' = [IdleCap EXCEPT !.pc = "loop"]
                  /\ caller' = "start_process"
                  /\ UNCHANGED <<proc, stats, sup>>
  /\ UNCHANGED node_running_
  /\ ctlRest
  /\ ringIdle

\* capture_node.cpp 33: process_thread_ = std::thread(...)
OtherStartProcess ==
  /\ caller = "start_process"
  /\ IF ProcessJoinable
     THEN Terminate
     ELSE /\ proc' = [IdleProc EXCEPT !.pc = "loop"]
          /\ caller' = "start_stats"
          /\ UNCHANGED <<cap, stats, sup>>
  /\ UNCHANGED <<node_running_, capture_running_>>
  /\ ctlRest
  /\ ringIdle

\* capture_node.cpp 36: stats_thread_ = std::thread(...)
OtherStartStats ==
  /\ caller = "start_stats"
  /\ IF StatsJoinable
     THEN Terminate
     ELSE /\ stats' = "loop"
          /\ caller' = "returned"
          /\ UNCHANGED <<cap, proc, sup>>
  /\ UNCHANGED <<node_running_, capture_running_>>
  /\ ctlRest
  /\ ringIdle

NextCtl ==
  \/ Start \/ StopBegin \/ CaptureStopFlag \/ CaptureClose
  \/ JoinCapture \/ JoinProcess \/ JoinStats \/ Flush
  \/ OtherStop \/ OtherStartFlag \/ OtherStartCapture \/ OtherStartProcess \/ OtherStartStats
  \/ CapLoopTest \/ CapReceive \/ CapReceiveError \/ CapRecord \/ CapPushed
  \/ NPushLoad \/ NPushFail \/ NPushWrite \/ NPushStore \/ NPushCount
  \/ ProcLoopTest \/ ProcBulkReturn \/ ProcGap \/ ProcStore \/ ProcCount
  \/ NBulkSize \/ NBulkLoop \/ NBulkTake
  \/ NPopLoad \/ NPopRead \/ NPopStore \/ NPopCount
  \/ StatsReport \/ StatsExit

SpecCtl == InitNodeSpec /\ [][NextCtl]_vars

\* C18: a start() or stop() made by another thread while stop() is in progress
\* is a no-op: no step of it changes the running flags, a thread, the socket
\* or the flushed state of the storage.
C18_ConcurrentCallNoOp ==
  [][caller' # caller =>
       UNCHANGED <<node_running_, capture_running_, cap, proc, stats, sup,
                   socket_open, flushed>>]_vars

----------------------------------------------------------------------------
\* SpecSeq: the node fed with valid records only, whose sequence numbers run
\* on, jump ahead, repeat or fall back

\* sequence numbers the n-th record of the run can carry
SeqChoice(n) ==
  CASE n = 1 -> {1, 2}
    [] n = 4 -> {2, 7}
    [] n = 5 -> {8}
    [] OTHER -> {n}

\* symbols the n-th record of the run can be for
SymChoice(n) == IF n = 2 THEN {1, 2} ELSE {1}

StreamInputs(n) == {MkTrade(seq, n, sym) : seq \in SeqChoice(n), sym \in SymChoice(n)}

SCapReceive == CapReceiveUpTo(StreamLen)
SCapRecord  == CapRecordOf([n \in 1 .. StreamLen |-> StreamInputs(n)], WholeRecords)

InitSeqSpec == InitNode /\ InitRing(SeqRingSize) /\ InitHist /\ InitMsgIdle

NextSeq ==
  \/ Start \/ StopBegin \/ CaptureStopFlag \/ CaptureClose
  \/ JoinCapture \/ JoinProcess \/ JoinStats \/ Flush
  \/ CapLoopTest \/ SCapReceive \/ CapReceiveError \/ SCapRecord \/ CapPushed
  \/ NPushLoad \/ NPushFail \/ NPushWrite \/ NPushStore \/ NPushCount
  \/ ProcLoopTest \/ ProcBulkReturn \/ ProcGap \/ ProcStore \/ ProcCount
  \/ NBulkSize \/ NBulkLoop \/ NBulkTake
  \/ NPopLoad \/ NPopRead \/ NPopStore \/ NPopCount
  \/ StatsReport \/ StatsExit

SpecSeq == InitSeqSpec /\ [][NextSeq]_vars


----------------------------------------------------------------------------
\* SpecCap: capture under load.  The socket delivers FloodRecords valid
\* records, in datagrams that may end in a partial record, and the processor
\* is not scheduled until capture has handled them all.

FloodInputs(n) == {MkTrade(n, n, 1)}

FCapReceive == CapReceiveUpTo(FloodRecords)
FCapRecord  == CapRecordOf([n \in 1 .. FloodRecords |-> FloodInputs(n)], ResidualInputs)

\* capture has handled every record and waits in receive_from
CaptureIdle == arrived = FloodRecords /\ cap.pc = "recv"

FProcLoopTest == CaptureIdle /\ ProcLoopTest

InitCapSpec == InitNode /\ InitRing(CapRingSize) /\ InitHist /\ InitMsgIdle

NextCap ==
  \/ Start
  \/ CapLoopTest \/ FCapReceive \/ FCapRecord \/ CapPushed
  \/ NPushLoad \/ NPushFail \/ NPushWrite \/ NPushStore \/ NPushCount
  \/ FProcLoopTest \/ ProcBulkReturn \/ ProcGap \/ ProcStore \/ ProcCount
  \/ NBulkSize \/ NBulkLoop \/ NBulkTake
  \/ NPopLoad \/ NPopRead \/ NPopStore \/ NPopCount
  \/ StatsReport

SpecCap == InitCapSpec /\ [][NextCap]_vars

\* C15: a datagram whose length is not a multiple of 64 has its complete
\* records handled as usual, and its trailing bytes are counted in
\* messages_invalid when they are discarded.
C15_ResidualCountedInvalid ==
  /\ [](messages_received_ + messages_dropped_ + (IF cap.pc = "push" THEN 1 ELSE 0) = arrived)
  /\ [][residuals' = residuals + 1 => messages_invalid_' = messages_invalid_ + 1]_vars

\* the processor has not consumed anything yet
NotConsuming == total_popped_ = 0 /\ pop.pc = "idle" /\ bulk.pc = "idle"

\* C16: overflow backpressure.  With the processor not consuming, once capture
\* has handled four times as many valid records as the ring has slots, all but
\* one slot's worth of the excess is dropped (messages_dropped >= 3 * slots) and
\* messages_received - messages_dropped, computed on the unsigned 64-bit
\* counters get_stats reports, is at most slots - 1; and whatever is popped
\* later is what was pushed, in order and unmodified.
C16_OverflowBackpressure ==
  /\ (CaptureIdle /\ NotConsuming) =>
       /\ messages_dropped_ >= FloodRecords - capacity
       /\ LeU64(SubU64(get_stats.messages_received, get_stats.messages_dropped),
                U64(capacity - 1))
  /\ IsPrefix(popped, Published)

----------------------------------------------------------------------------
\* Properties of the processor (SpecSeq)

\* the records of symbol s among those published to the ring, in push order
PublishedFor(s) == SelectSeq(Published, LAMBDA r : r.symbol_id = s)

\* C12: order is preserved into storage: the records in a symbol's file are,
\* in file order, the first records of that symbol in push order, so of two
\* records of one symbol the one pushed first is written first; and the
\* records passed to store() are the popped ones in pop order.
C12_OrderPreserved ==
  /\ \A s \in DOMAIN files_ : IsPrefix(files_[s].data, PublishedFor(s))
  /\ IsPrefix(stored, popped)

\* a batch of three records, for symbols 1, 2 and 1, has been stored
C12_Witness ==
  /\ proc.pc = "count"
  /\ proc.i = 3
  /\ proc.batch[1].symbol_id = 1
  /\ proc.batch[2].symbol_id = 2
  /\ proc.batch[3].symbol_id = 1
  /\ Len(files_[1].data) = 2
  /\ Len(files_[2].data) = 1

\* C13: within each per-symbol file the sequence numbers of the stored records
\* are strictly increasing, whatever stream of valid records is delivered.
C13_FileSequenceIncreasing ==
  \A s \in DOMAIN files_ :
    \A i \in 1 .. Len(files_[s].data) - 1 :
      files_[s].data[i].sequence_number < files_[s].data[i + 1].sequence_number

\* the sequence numbers of the records of rs, in order
SeqNumbers(rs) == [k \in 1 .. Len(rs) |-> rs[k].sequence_number]

\* the gap events a processor starting from last = L emits for the sequence
\* numbers ss handled in this order
RECURSIVE GapEvents(_, _)
GapEvents(L, ss) ==
  IF ss = <<>> THEN <<>>
  ELSE (IF L > 0 /\ Head(ss) > L + 1 THEN <<(<<L, Head(ss)>>)>> ELSE <<>>)
         \o GapEvents(Head(ss), Tail(ss))

\* the records whose gap check has been made, in order: the stored ones and
\* the one about to be stored
Handled ==
  stored \o (IF proc.pc = "store" THEN <<proc.batch[proc.i]>> ELSE <<>>)

\* the processor is in the middle of handling a record
ProcStep == proc.pc \in {"gap", "store", "count"} /\ proc' # proc

\* C14: gap detection.  Handling a record with sequence number sq while
\* last_sequence = L emits the gap event (L, sq) if and only if L > 0 and
\* sq > L + 1; with or without a gap the record is stored and counted in
\* messages_processed, and messages_dropped and messages_invalid stay as they
\* are.  For the sequence numbers 1, 2, 3, 7, 8 the only gap event is (3, 7)
\* and messages_processed is 5.
C14_GapDetection ==
  /\ [](/\ gaps = GapEvents(0, SeqNumbers(Handled))
        /\ last_sequence_ = (IF Handled = <<>> THEN 0 ELSE Handled[Len(Handled)].sequence_number)
        /\ messages_processed_ = Len(stored) - (IF proc.pc = "count" THEN 1 ELSE 0)
        /\ (SeqNumbers(stored) = <<1, 2, 3, 7, 8>> /\ proc.pc # "count")
             => (gaps = <<(<<3, 7>>)>> /\ messages_processed_ = 5))
  /\ [][ProcStep =>
          /\ UNCHANGED <<messages_dropped_, messages_invalid_>>
          /\ proc.pc = "gap" =>
               LET L  == last_sequence_
                   sq == proc.batch[proc.i].sequence_number
               IN  /\ (gaps' = Append(gaps, <<L, sq>>)) <=> (L > 0 /\ sq > L + 1)
                   /\ gaps' # gaps => gaps' = Append(gaps, <<L, sq>>)
                   /\ proc'.pc = "store"
          /\ proc.pc = "store" =>
               /\ stored' = Append(stored, proc.batch[proc.i])
               /\ proc'.pc = "count"
          /\ proc.pc = "count" => messages_processed_' = messages_processed_ + 1]_vars

\* the stream 1, 2, 3, 7, 8 has been processed
C14_Witness ==
  /\ SeqNumbers(stored) = <<1, 2, 3, 7, 8>>
  /\ gaps = <<(<<3, 7>>)>>
  /\ messages_processed_ = 5
  /\ messages_dropped_ = 0
  /\ messages_invalid_ = 0

----------------------------------------------------------------------------
\* SpecVal: capture fed with records at the boundaries of validate_message.
\* The socket delivers one fixed stream; datagram boundaries and the
\* scheduling of the processor are free.

ValRecords == 5

\* the n-th record of the stream
BoundaryRecord(n) ==
  LET ok == MkTrade(n, n, 1)
  IN  CASE n = 1 -> [ok EXCEPT !.symbol_id = MaxSymbolId]
        [] n = 2 -> [ok EXCEPT !.symbol_id = MaxSymbolId + 1]
        [] n = 3 -> [ok EXCEPT !.symbol_id = 0]
        [] n = 4 -> [ok EXCEPT !.price = MaxPrice]
        [] n = 5 -> [ok EXCEPT !.price = MaxPrice - 1]
        [] OTHER -> ok

VCapReceive == CapReceiveUpTo(ValRecords)
VCapRecord  == CapRecordOf([n \in 1 .. ValRecords |-> {BoundaryRecord(n)}], WholeRecords)

InitValSpec == InitNode /\ InitRing(NodeRingSize) /\ InitHist /\ InitMsgIdle

NextVal ==
  \/ Start
  \/ CapLoopTest \/ VCapReceive \/ VCapRecord \/ CapPushed
  \/ NPushLoad \/ NPushFail \/ NPushWrite \/ NPushStore \/ NPushCount
  \/ ProcLoopTest \/ ProcBulkReturn \/ ProcGap \/ ProcStore \/ ProcCount
  \/ NBulkSize \/ NBulkLoop \/ NBulkTake
  \/ NPopLoad \/ NPopRead \/ NPopStore \/ NPopCount
  \/ StatsReport

SpecVal == InitValSpec /\ [][NextVal]_vars

\* every check of validate_message but the one on symbol_id
OtherFieldsOk(m) ==
  /\ m.sequence_number > 0
  /\ m.type = Trade
  /\ m.price > 0
  /\ m.price < MaxPrice
  /\ m.size > 0

\* C21: symbol_id boundary at capture.  A record with symbol_id 10000 (and
\* otherwise valid) enters try_push and is not counted invalid; a record with
\* symbol_id 10001 or 0 increments messages_invalid and is not pushed: the ring
\* and the try_push frame stay as they were, and no such record is ever in the
\* ring or in a file.
C21_SymbolBoundary ==
  /\ [][arrived' = arrived + 1 =>
          LET m == BoundaryRecord(arrived + 1)
          IN  /\ (m.symbol_id = MaxSymbolId /\ OtherFieldsOk(m)) =>
                   /\ push'.pc = "load"
                   /\ push'.item = m
                   /\ messages_invalid_' = messages_invalid_
              /\ m.symbol_id \in {0, MaxSymbolId + 1} =>
                   /\ messages_invalid_' = messages_invalid_ + 1
                   /\ UNCHANGED <<push, ringVars, messages_received_, messages_dropped_>>]_vars
  /\ [](\A i \in DOMAIN Published :
          Published[i].symbol_id >= 1 /\ Published[i].symbol_id <= MaxSymbolId)
  /\ [](\A i \in DOMAIN stored :
          stored[i].symbol_id >= 1 /\ stored[i].symbol_id <= MaxSymbolId)

\* the record for symbol 10000 is in its file, and the records for symbols
\* 10001 and 0 were counted invalid
C21_Witness ==
  /\ arrived >= 3
  /\ messages_invalid_ = 2
  /\ stored # <<>>
  /\ stored[1] = BoundaryRecord(1)
  /\ MaxSymbolId \in DOMAIN files_

\* C22: price bounds are exclusive on both sides.  Every record that capture
\* pushes has 0 < price < 1,000,000, as is_valid() requires; a record with
\* price exactly 1,000,000 is counted invalid and never pushed.
C22_PriceBoundsExclusive ==
  \A i \in DOMAIN Published : Published[i].price > 0 /\ Published[i].price < MaxPrice

----------------------------------------------------------------------------
\* SpecSize: a ring constructed with each configured size, then filled by the
\* producer alone

MaxConfigSize == 9

\* values of CaptureConfig::ring_buffer_size
ConfigSizes == (1 .. MaxConfigSize) \cup {1024}

InitSizeSpec ==
  /\ \E size \in ConfigSizes : InitRing(size)
  /\ InitHist /\ InitMsgIdle /\ InitNode

NextSize ==
  \/ ProducerCall \/ ProducerReturn
  \/ RPushLoad \/ RPushFail \/ RPushWrite \/ RPushStore \/ RPushCount

SpecSize == InitSizeSpec /\ [][NextSize]_vars

RECURSIVE IsPowerOf2(_)
IsPowerOf2(n) == n = 1 \/ (n > 1 /\ n % 2 = 0 /\ IsPowerOf2(n \div 2))

----------------------------------------------------------------------------
\* SpecStore: TickStorage used directly by one client that calls store() and
\* flush() in any order.  Opening and writing the files succeeds.

MaxStores == 4

\* symbol_id values the client passes: inside and outside 1 .. 10000
StoreSymbols == {0, 1, MaxSymbolId, MaxSymbolId + 1}
StoreInputs(n) == {MkTrade(n, n, sym) : sym \in StoreSymbols}

storeRest == UNCHANGED <<capVars, procVars, ringVars, frameVars, histVars, msgVars>>

\* tick_storage.cpp 10-34: store(msg).  flushed becomes false: the files hold a
\* record written after the last flush() call
StoreCall ==
  /\ Len(stored) < MaxStores
  /\ \E m \in StoreInputs(Len(stored) + 1) :
       /\ files_' = StoreInto(files_, m)
       /\ stored' = Append(stored, m)
  /\ total_messages_' = total_messages_ + 1
  /\ total_bytes_' = total_bytes_ + RecordBytes
  /\ flushed' = FALSE
  /\ storeRest

\* tick_storage.cpp 36-41: flush()
FlushCall ==
  /\ ~flushed
  /\ flushed' = TRUE
  /\ UNCHANGED <<files_, total_messages_, total_bytes_, stored>>
  /\ storeRest

\* tick_storage.cpp 43-49: get_stats()
storage_get_stats == [messages_stored |-> total_messages_, bytes_written |-> total_bytes_]

InitStoreSpec == InitNode /\ InitRing(NodeRingSize) /\ InitHist /\ InitMsgIdle

NextStore == StoreCall \/ FlushCall

SpecStore == InitStoreSpec /\ [][NextStore]_vars

\* C24: store() with symbol_id 0 or above 10000 is rejected: no handle is
\* created for such a symbol, nothing is written and the counters stay as
\* they were, so every handle is for a symbol in 1..10000 and the totals count
\* the records of those symbols only.
C24_StoreRejectsBadSymbol ==
  /\ \A s \in DOMAIN files_ : s >= 1 /\ s <= MaxSymbolId
  /\ total_messages_ =
       Len(SelectSeq(stored, LAMBDA r : r.symbol_id >= 1 /\ r.symbol_id <= MaxSymbolId))

RECURSIVE SumOver(_, _)
SumOver(f, S) ==
  IF S = {} THEN 0
  ELSE LET x == CHOOSE y \in S : TRUE IN f[x] + SumOver(f, S \ {x})

----------------------------------------------------------------------------
\* SpecFail: the node on a storage directory in which a file may fail to open

\* tick_storage.cpp 56-62 under capture_node.cpp 81: the file of a symbol not
\* stored before cannot be opened and get_file_handle throws
\* std::runtime_error.  Neither store() nor process_messages() catches it, and
\* an exception that leaves a thread's function calls std::terminate: the
\* process ends with all its threads.
ProcStoreThrows ==
  /\ proc.pc = "store"
  /\ proc.batch[proc.i].symbol_id \notin DOMAIN files_
  /\ Terminate
  /\ UNCHANGED <<capture_running_, node_running_>>
  /\ ctlRest
  /\ ringIdle

NextFail == NextFair \/ ProcStoreThrows

SpecFail == InitNodeSpec /\ [][NextFail]_vars

\* C25: a storage failure does not stop processing.  When store() fails, the
\* failure is logged and counted and the processor goes on with the next
\* message: every step the processor takes at store() leads to the count of
\* the message, and the processor thread keeps running.
C25_StorageFailureTolerated ==
  [][(proc.pc = "store" /\ proc' # proc) => proc'.pc = "count"]_vars

----------------------------------------------------------------------------
\* FairObs: the node with the steps of the status thread made visible.  The
\* capture and processor threads are scheduled fairly; nothing is assumed
\* about the status thread, which may stay in its sleep or in its report for
\* ever.

\* mutant: the report clears a counter it has read
StatsSnapshot_ClearsCounter ==
  /\ stats = "loop"
  /\ node_running_
  /\ stats' = "sleep"
  /\ messages_received_' = 0
  /\ UNCHANGED <<capture_running_, socket_open, messages_dropped_, messages_invalid_, cap, arrived,
                 badArrived, residuals>>
  /\ UNCHANGED <<node_running_, messages_processed_, last_sequence_, proc, sup, caller, life, gaps,
                 storVars>>
  /\ ringIdle

\* capture_node.cpp 99-117: the loop test succeeds; get_stats() loads the
\* counters, the line is printed (and published when there is a coordinator)
StatsSnapshot ==
  /\ stats = "loop"
  /\ node_running_
  /\ stats' = "sleep"
  /\ UNCHANGED <<capVars, node_running_, messages_processed_, last_sequence_, proc, sup, caller, life, gaps,
                 storVars>>
  /\ ringIdle

\* capture_node.cpp 119-120: sleep_until(next_report) returns
StatsWake ==
  /\ stats = "sleep"
  /\ stats' = "loop"
  /\ UNCHANGED <<capVars, node_running_, messages_processed_, last_sequence_, proc, sup, caller, life, gaps,
                 storVars>>
  /\ ringIdle

NextObs ==
  \/ Start \/ StopBegin \/ CaptureStopFlag \/ CaptureClose
  \/ JoinCapture \/ JoinProcess \/ JoinStats \/ Flush
  \/ CapLoopTest \/ LCapReceive \/ CapReceiveError \/ LCapRecord \/ CapPushed
  \/ NPushLoad \/ NPushFail \/ NPushWrite \/ NPushStore \/ NPushCount
  \/ ProcLoopTest \/ ProcBulkReturn \/ ProcGap \/ ProcStore \/ ProcCount
  \/ NBulkSize \/ NBulkLoop \/ NBulkTake
  \/ NPopLoad \/ NPopRead \/ NPopStore \/ NPopCount
  \/ StatsSnapshot \/ StatsWake \/ StatsExit

FairObs ==
  /\ InitNodeSpec
  /\ [][NextObs]_vars
  /\ WF_vars(CaptureThread)
  /\ WF_vars(ProcessThread)

\* a step of the status thread inside its loop
StatsStep == stats \in {"loop", "sleep"} /\ stats' # stats

\* C26: the status publisher is purely observational.  A step of the status
\* thread changes no counter, no ring state and no storage state; and without
\* any assumption on when (or whether) the status thread runs, every record
\* the socket delivered is counted by capture, and every record pushed into
\* the ring is stored unless stop() has begun.
C26_StatusObservational ==
  /\ [][StatsStep =>
          UNCHANGED <<ringVars, frameVars, capVars, node_running_, messages_processed_,
                      last_sequence_, proc, gaps, storVars>>]_vars
  /\ \A n \in 1 .. FairRecords :
       /\ (arrived >= n) ~> (messages_received_ + messages_dropped_ + messages_invalid_ >= n)
       /\ (Len(Published) >= n) ~> (Len(stored) >= n \/ ~node_running_)

\* every record has been stored while the status thread is in its sleep
C26_Witness ==
  /\ stats = "sleep"
  /\ node_running_
  /\ arrived = FairRecords
  /\ Len(stored) = FairRecords
  /\ messages_processed_ = FairRecords

----------------------------------------------------------------------------
\* Slots and occupancy of the ring buffer (SpecRing)

\* the slots of the range [read_idx_, write_idx_), taken modulo the capacity
Occupied ==
  {BitAnd(read_idx_ + i, mask_) : i \in 0 .. SizeOf(read_idx_, write_idx_) - 1}

\* C27: single-producer/single-consumer slot exclusion.  The slot a try_push
\* writes is outside the occupied range [read_idx, write_idx) from its full
\* check until it publishes the slot; the slot a try_pop reads is inside that
\* range and holds the item published for it (the oldest one not yet popped);
\* producer and consumer are never about to write and to read the same slot.
C27_SlotExclusion ==
  /\ push.pc \in {"write", "store"} =>
       /\ push.current_write = write_idx_
       /\ push.current_write \notin Occupied
  /\ pop.pc = "read" =>
       /\ pop.current_read = read_idx_
       /\ pop.current_read \in Occupied
       /\ total_popped_ < Len(Published)
       /\ buffer_[pop.current_read] = Published[total_popped_ + 1]
  /\ (push.pc = "write" /\ pop.pc = "read") => push.current_write # pop.current_read

\* the producer writes a slot it reuses while the consumer reads another one
C27_Witness ==
  /\ push.pc = "write"
  /\ pop.pc = "read"
  /\ total_pushed_ >= capacity
  /\ push.current_write # pop.current_read

\* no pop has taken effect so far
NoPopYet == read_idx_ = 0 /\ total_popped_ = 0

\* the number of try_push calls that have reached their return
PushesDecided == total_pushed_ + push_failures_

\* C28: one slot is always kept empty.  The ring never holds more than N - 1
\* items (N = capacity()); a try_push succeeds exactly when fewer than N - 1
\* items are in the ring at its full check; and from an empty ring with no
\* pops, the first N - 1 try_push calls succeed and the N-th returns false.
C28_OneSlotEmpty ==
  /\ [](/\ SizeOf(read_idx_, write_idx_) <= capacity - 1
        /\ Len(Published) - total_popped_ - (IF pop.pc = "count" THEN 1 ELSE 0)
             = SizeOf(read_idx_, write_idx_)
        /\ NoPopYet =>
             /\ total_pushed_ = (IF PushesDecided <= capacity - 1 THEN PushesDecided
                                 ELSE capacity - 1)
             /\ push_failures_ > 0 => Len(pushed) = capacity - 1)
  /\ [][(push.pc = "load" /\ push' # push) =>
          /\ (push'.pc = "write") <=> (SizeOf(read_idx_, write_idx_) < capacity - 1)
          /\ (push'.pc = "fail") <=> (SizeOf(read_idx_, write_idx_) = capacity - 1)]_vars
  /\ [][(push.pc \in {"fail", "count"} /\ push' # push) =>
          (push'.result <=> push.pc = "count")]_vars

\* with no pop, N - 1 pushes succeeded and the N-th has returned false
C28_Witness ==
  /\ NoPopYet
  /\ pop.pc = "idle"
  /\ pushCalls = capacity
  /\ push.pc = "ret"
  /\ ~push.result
  /\ total_pushed_ = capacity - 1
  /\ push_failures_ = 1

\* C29: frame effects of try_pop.  On an empty ring it returns nullopt and
\* leaves read_idx and total_popped as they were; otherwise it returns the
\* item of slot read_idx, advances read_idx by one modulo the capacity and
\* adds one to total_popped.  It never changes write_idx, total_pushed,
\* push_failures or a slot.
C29_PopFrame ==
  [][(pop.pc \in {"load", "read", "store", "count"} /\ pop' # pop) =>
       /\ UNCHANGED <<write_idx_, total_pushed_, push_failures_, buffer_, mask_>>
       /\ pop.pc = "load" =>
            /\ UNCHANGED <<read_idx_, total_popped_>>
            /\ read_idx_ = write_idx_ => (pop'.pc = "ret" /\ pop'.result = nullopt)
            /\ read_idx_ # write_idx_ => (pop'.pc = "read" /\ pop'.current_read = read_idx_)
       /\ pop.pc = "read" =>
            /\ UNCHANGED <<read_idx_, total_popped_>>
            /\ pop'.item = buffer_[read_idx_]
       /\ pop.pc = "store" =>
            /\ read_idx_' = (read_idx_ + 1) % capacity
            /\ UNCHANGED total_popped_
       /\ pop.pc = "count" =>
            /\ UNCHANGED read_idx_
            /\ total_popped_' = total_popped_ + 1
            /\ pop'.pc = "ret"
            /\ pop'.result = <<pop.item>>]_vars

\* a try_pop found the ring empty after the indices have wrapped around
C29_Witness ==
  /\ pop.pc = "ret"
  /\ pop.result = nullopt
  /\ total_popped_ > capacity
  /\ read_idx_ = write_idx_

----------------------------------------------------------------------------
\* Relations between counters read while the threads run

\* C31: messages_processed <= messages_received at every instant, under every
\* interleaving of the capture and processor threads: no record is counted as
\* processed before it is counted as received.
C31_ProcessedAtMostReceived == messages_processed_ <= messages_received_

\* C32: at every instant total_popped() <= total_pushed(); and whenever
\* neither thread is inside try_push or try_pop,
\* total_pushed() - total_popped() = size().
C32_PoppedAtMostPushed ==
  /\ total_popped_ <= total_pushed_
  /\ (push.pc \in {"idle", "ret"} /\ pop.pc \in {"idle", "ret"})
       => total_pushed_ - total_popped_ = SizeOf(read_idx_, write_idx_)

\* C33: sealing is idempotent.  For every record, update_checksum() applied
\* twice leaves the checksum field that one application leaves.
C33_SealIdempotent ==
  update_checksum(update_checksum(msg)).checksum = update_checksum(msg).checksum

\* C34: last_sequence never decreases during a run of the processor, whatever
\* the order of the sequence numbers of the valid records that arrive.
C34_LastSequenceMonotonic == [][last_sequence_' >= last_sequence_]_vars

----------------------------------------------------------------------------
\* SpecLife: one supervisor thread that calls start() and stop() one after
\* another, also when the node is already running or is not running

MaxCalls == 4

\* everything but the history of the lifecycle calls
nodeState ==
  <<msgVars, ringVars, frameVars, histVars, capVars, storVars, node_running_,
    messages_processed_, last_sequence_, proc, stats, sup, caller, gaps>>

\* mutant: start() on a running node starts the processor and status threads again
StartAgain_NoTest ==
  /\ sup = "started"
  /\ Len(life.calls) < MaxCalls
  /\ life' = [life EXCEPT !.calls = Append(@, "start"),
                          !.started = @ \o <<"process", "stats">>]
  /\ UNCHANGED nodeState

\* capture_node.cpp 19-21: start() finds running_ true and returns
StartAgain ==
  /\ sup = "started"
  /\ node_running_
  /\ Len(life.calls) < MaxCalls
  /\ life' = [life EXCEPT !.calls = Append(@, "start")]
  /\ UNCHANGED nodeState

\* capture_node.cpp 39-41: stop() finds running_ false and returns, on a node
\* never started or already stopped (the destructor's stop() is such a call)
StopIdle ==
  /\ sup \in {"constructed", "stopped"}
  /\ ~node_running_
  /\ Len(life.calls) < MaxCalls
  /\ life' = [life EXCEPT !.calls = Append(@, "stop")]
  /\ UNCHANGED nodeState

NextLife == NextFair \/ StartAgain \/ StopIdle

SpecLife == InitNodeSpec /\ [][NextLife]_vars

NodeThreads == <<"capture", "process", "stats">>

\* C35: lifecycle calls made one after another by one supervisor thread are
\* idempotent.  start() on a running node starts no thread; stop() on a node
\* that is not running joins nothing and does not call flush(); so each thread
\* is started at most once and joined at most once, flush() is called at most
\* once, and when stop() has returned on a started node each was done exactly
\* once, whatever further calls were made.
C35_LifecycleIdempotent ==
  /\ [][life'.calls # life.calls =>
          LET call == life'.calls[Len(life'.calls)]
          IN  /\ (call = "start" /\ node_running_) =>
                   (UNCHANGED nodeState /\ life'.started = life.started)
              /\ (call = "stop" /\ ~node_running_) =>
                   /\ UNCHANGED nodeState
                   /\ life'.joined = life.joined
                   /\ life'.flushes = life.flushes]_vars
  /\ [](/\ IsPrefix(life.started, NodeThreads)
        /\ IsPrefix(life.joined, NodeThreads)
        /\ life.flushes <= 1
        /\ sup = "stopped" =>
             /\ life.started = NodeThreads
             /\ life.joined = NodeThreads
             /\ life.flushes = 1)

\* start, start, stop, stop have been called and have returned
C35_Witness ==
  /\ life.calls = <<"start", "start", "stop", "stop">>
  /\ sup = "stopped"
  /\ life.started = NodeThreads
  /\ life.joined = NodeThreads
  /\ life.flushes = 1

=============================================================================
